---- MODULE Spec2Model ----
(***************************************************************************)
(* GovernanceAgent of src/realms/index.ts: the keyword classifier of       *)
(* processInstruction, the three capability handlers and the envelopes     *)
(* they build, stepped per call so that calls issued in parallel           *)
(* interleave.                                                             *)
(*                                                                         *)
(* A JavaScript string is a sequence of one-character strings, so that     *)
(* includes, split, trim and toLowerCase are computed the way the runtime  *)
(* computes them.  An envelope is a record whose DOMAIN is the set of keys  *)
(* the object literal in the source has: an absent key is an absent field.  *)
(* A timestamp is the clock reading in milliseconds (toISOString is a      *)
(* one-to-one rendering of it and nothing reads it back).                  *)
(***************************************************************************)
EXTENDS Integers, Sequences, FiniteSets, TLC

VARIABLES config, now, pc, instruction, handler, envelope, path, signed

vars == <<config, now, pc, instruction, handler, envelope, path, signed>>

(* ------------------------------ bounds --------------------------------- *)

\* longest generated instruction, in vocabulary words
MaxWords == 2
\* last clock reading (ms)
MaxClock == 1
\* processInstruction calls the caller may have in flight at once
NumCalls == 2

Calls == 1..NumCalls

(* ------------------------- string literals ----------------------------- *)

\* the routing keywords of processInstruction
KwCreateProposal == <<"c","r","e","a","t","e"," ","p","r","o","p","o","s","a","l">>
KwVote == <<"v","o","t","e">>
KwCast == <<"c","a","s","t">>
KwTreasury == <<"t","r","e","a","s","u","r","y">>

\* the markers and defaults of the handlers
KwAgainst == <<"a","g","a","i","n","s","t">>
KwTitled == <<"t","i","t","l","e","d">>
Quote == <<"\"">>
UntitledProposal == <<"U","n","t","i","t","l","e","d"," ","P","r","o","p","o","s","a","l">>
VoteFor == <<"f","o","r">>
VoteAgainst == <<"a","g","a","i","n","s","t">>

\* the message texts of the envelopes
MsgCreatedPrefix == <<"C","r","e","a","t","e","d"," ","n","e","w"," ","g","o","v","e","r","n","a","n","c","e"," ","p","r","o","p","o","s","a","l",":"," ","\"">>
MsgVoteCast == <<"V","o","t","e"," ","c","a","s","t"," ">>
MsgProposalSuffix == <<" ","p","r","o","p","o","s","a","l">>
MsgTreasury == <<"T","r","e","a","s","u","r","y"," ","i","n","f","o","r","m","a","t","i","o","n"," ","r","e","t","r","i","e","v","e","d">>
MsgUnsupported == <<"U","n","s","u","p","p","o","r","t","e","d"," ","g","o","v","e","r","n","a","n","c","e"," ","i","n","s","t","r","u","c","t","i","o","n">>

(* ------------------------- JavaScript strings -------------------------- *)

Uppers == <<"A","B","C","D","E","F","G","H","I","J","K","L","M","N","O","P","Q","R","S","T","U","V","W","X","Y","Z">>
Lowers == <<"a","b","c","d","e","f","g","h","i","j","k","l","m","n","o","p","q","r","s","t","u","v","w","x","y","z">>

Whitespace == {" ", "\t", "\n", "\r"}

ToLowerChar(ch) ==
    IF \E i \in 1..Len(Uppers) : Uppers[i] = ch
    THEN Lowers[CHOOSE i \in 1..Len(Uppers) : Uppers[i] = ch]
    ELSE ch

\* String.prototype.toLowerCase
toLowerCase(s) == [i \in 1..Len(s) |-> ToLowerChar(s[i])]

\* sub occurs in str at position i (from 1)
OccursAt(str, sub, i) == SubSeq(str, i, i + Len(sub) - 1) = sub

FirstOccurrence(str, sub) ==
    IF \E i \in 1..(Len(str) - Len(sub) + 1) : OccursAt(str, sub, i)
    THEN CHOOSE i \in 1..(Len(str) - Len(sub) + 1) :
            OccursAt(str, sub, i) /\ \A j \in 1..(i - 1) : ~OccursAt(str, sub, j)
    ELSE 0

\* first position (from 1) at which sub occurs in s, 0 when it does not
\* (str \in {s} evaluates the receiver once, as the runtime does)
IndexOf(s, sub) == CHOOSE r \in {FirstOccurrence(str, sub) : str \in {s}} : TRUE

\* String.prototype.includes
includes(s, sub) == IndexOf(s, sub) # 0

\* String.prototype.split with a non-empty separator
RECURSIVE SplitAt(_, _, _)
SplitAt(str, sep, i) ==
    IF i = 0
    THEN <<str>>
    ELSE <<SubSeq(str, 1, i - 1)>>
            \o CHOOSE r \in {SplitAt(rest, sep, FirstOccurrence(rest, sep)) :
                                rest \in {SubSeq(str, i + Len(sep), Len(str))}} : TRUE

split(s, sep) == CHOOSE r \in {SplitAt(str, sep, FirstOccurrence(str, sep)) : str \in {s}} : TRUE

\* String.prototype.trim
RECURSIVE TrimStart(_)
TrimStart(str) == IF str # <<>> /\ str[1] \in Whitespace THEN TrimStart(Tail(str)) ELSE str

RECURSIVE TrimEnd(_)
TrimEnd(str) ==
    IF str # <<>> /\ str[Len(str)] \in Whitespace
    THEN TrimEnd(SubSeq(str, 1, Len(str) - 1))
    ELSE str

trim(s) == CHOOSE r \in {TrimEnd(TrimStart(str)) : str \in {s}} : TRUE

(* ------------------------------ the agent ------------------------------ *)

\* the context main() constructs the agent with
DriverContext ==
    [ daoName      |-> "MCP Community",
      realmAddress |-> "G5trKGedmTdqpn6wqfX3KdPnBXriazkWuSEBrUEFQ1qJ",
      agentId      |-> "wallet.publicKey" ]

getName == <<config.daoName, " Governance Agent">>

getDescription == <<"Agent for interacting with ", config.daoName, " DAO via Realms governance">>

getCapabilities ==
    << "Proposal Creation", "Vote Casting", "DAO Treasury Management",
       "Governance Analytics", "Member Management" >>

getState ==
    [ daoName |-> config.daoName, realmAddress |-> config.realmAddress,
      agentId |-> config.agentId ]

\* the simulated signer: the signature it returns for any transaction
executeTransaction(transaction) == "simulated-transaction-signature"

\* variant: the first rule looks for 'create' alone
Classify_looseCreate(text) ==
    IF includes(toLowerCase(text), SubSeq(KwCreateProposal, 1, 6)) THEN "createProposal"
    ELSE IF includes(toLowerCase(text), KwVote) \/ includes(toLowerCase(text), KwCast)
         THEN "castVote"
    ELSE IF includes(toLowerCase(text), KwTreasury) THEN "treasuryAction"
    ELSE "unsupported"

\* variant: the treasury rule is tried before the vote rule
Classify_treasuryFirst(text) ==
    IF includes(toLowerCase(text), KwCreateProposal) THEN "createProposal"
    ELSE IF includes(toLowerCase(text), KwTreasury) THEN "treasuryAction"
    ELSE IF includes(toLowerCase(text), KwVote) \/ includes(toLowerCase(text), KwCast)
         THEN "castVote"
    ELSE "unsupported"

\* the if / else-if chain of processInstruction: the handler it calls
Classify(text) ==
    IF includes(toLowerCase(text), KwCreateProposal) THEN "createProposal"
    ELSE IF includes(toLowerCase(text), KwVote) \/ includes(toLowerCase(text), KwCast)
         THEN "castVote"
    ELSE IF includes(toLowerCase(text), KwTreasury) THEN "treasuryAction"
    ELSE "unsupported"

\* variant: the failed envelope carries an empty payload
UnsupportedEnvelope_withData ==
    [ success |-> FALSE,
      message |-> MsgUnsupported,
      data    |-> [type |-> "none"],
      error   |-> [code |-> 400, message |-> "Could not parse governance instruction"] ]

\* the object the final else branch returns
UnsupportedEnvelope ==
    [ success |-> FALSE,
      message |-> MsgUnsupported,
      error   |-> [code |-> 400, message |-> "Could not parse governance instruction"] ]

VotingPeriodMs == 3 * 24 * 60 * 60 * 1000

\* the title createProposal extracts
ExtractTitle(text) ==
    IF includes(text, KwTitled)
    THEN LET quoted == split(trim(split(text, KwTitled)[2]), Quote)
         IN  IF Len(quoted) >= 2 /\ quoted[2] # <<>> THEN quoted[2] ELSE UntitledProposal
    ELSE UntitledProposal

\* each handler yields the envelope it returns and the signatures it
\* obtained from executeTransaction on the way (none of them calls it)
createProposal(text, t) ==
    [ envelope |->
        [ success |-> TRUE,
          message |-> MsgCreatedPrefix \o ExtractTitle(text) \o Quote,
          data    |-> [ type            |-> "proposal",
                        title           |-> ExtractTitle(text),
                        createdAt       |-> t,
                        proposalAddress |-> "Gx7dJvn9PD9G6uUPsVQCjrCgPy9ogHZ7GzZm5HVF37EL",
                        votingEndsAt    |-> t + VotingPeriodMs ] ],
      signed |-> <<>> ]

\* variant: 'against' is looked for in the text as typed
castVote_caseSensitive(text, t) ==
    LET voteFor == ~includes(text, KwAgainst)
    IN  [ envelope |->
            [ success |-> TRUE,
              message |-> MsgVoteCast \o (IF voteFor THEN VoteFor ELSE VoteAgainst)
                              \o MsgProposalSuffix,
              data    |-> [ type        |-> "vote",
                            proposalId  |-> "Gx7dJvn9PD9G6uUPsVQCjrCgPy9ogHZ7GzZm5HVF37EL",
                            vote        |-> IF voteFor THEN VoteFor ELSE VoteAgainst,
                            votingPower |-> "1000",
                            timestamp   |-> t ] ],
          signed |-> <<>> ]

castVote(text, t) ==
    LET voteFor == ~includes(toLowerCase(text), KwAgainst)
    IN  [ envelope |->
            [ success |-> TRUE,
              message |-> MsgVoteCast \o (IF voteFor THEN VoteFor ELSE VoteAgainst)
                              \o MsgProposalSuffix,
              data    |-> [ type        |-> "vote",
                            proposalId  |-> "Gx7dJvn9PD9G6uUPsVQCjrCgPy9ogHZ7GzZm5HVF37EL",
                            vote        |-> IF voteFor THEN VoteFor ELSE VoteAgainst,
                            votingPower |-> "1000",
                            timestamp   |-> t ] ],
          signed |-> <<>> ]

treasuryAction(text, t) ==
    [ envelope |->
        [ success |-> TRUE,
          message |-> MsgTreasury,
          data    |-> [ type    |-> "treasury",
                        balance |-> "15000 SOL",
                        tokens  |-> << [ mint   |-> "EPjFWdd5AufqSSqeM2qN1xzybapC8G4wEGGkZwyTDt1v",
                                         symbol |-> "USDC", amount |-> "25000" ],
                                       [ mint   |-> "mSoLzYCxHdYgdzU16g5QSh3i5K3z3KZK7ytfqcJm7So",
                                         symbol |-> "mSOL", amount |-> "150" ] >>,
                        governanceAddress |-> "G5trKGedmTdqpn6wqfX3KdPnBXriazkWuSEBrUEFQ1qJ",
                        lastActivity      |-> t ] ],
      signed |-> <<>> ]

\* the call processInstruction makes once it has chosen a handler
RunHandler(h, text, t) ==
    CASE h = "createProposal" -> createProposal(text, t)
      [] h = "castVote"       -> castVote(text, t)
      [] h = "treasuryAction" -> treasuryAction(text, t)

\* processInstruction run from entry to return with nothing in between
processInstruction(text, t) ==
    IF Classify(text) = "unsupported"
    THEN UnsupportedEnvelope
    ELSE RunHandler(Classify(text), text, t).envelope

(* ------------------------------ the inputs ----------------------------- *)

\* words the generated instructions are made of
WCreate == <<"C","r","e","a","t","e">>
WProposal == <<"p","r","o","p","o","s","a","l">>
WTitled == <<"t","i","t","l","e","d">>
WQuotedTitle == <<"\"","F","u","n","d"," ","G","r","a","n","t","s","\"">>
WVote == <<"V","o","t","e">>
WBroadcast == <<"b","r","o","a","d","c","a","s","t">>
WAgainst == <<"A","G","A","I","N","S","T">>
WTreasury == <<"T","r","e","a","s","u","r","y">>
WBalance == <<"b","a","l","a","n","c","e">>

Vocabulary ==
    {WCreate, WProposal, WTitled, WQuotedTitle, WVote, WBroadcast, WAgainst, WTreasury, WBalance}

RECURSIVE Join(_)
Join(ws) ==
    IF ws = <<>> THEN <<>>
    ELSE IF Len(ws) = 1 THEN ws[1]
    ELSE ws[1] \o <<" ">> \o Join(Tail(ws))

Phrases == {Join(ws) : ws \in UNION {[1..n -> Vocabulary] : n \in 0..MaxWords}}

\* the instructions of main() and of the documented scenarios
TitleFundGrants == <<"F","u","n","d"," ","G","r","a","n","t","s">>
TitleDriver == <<"I","n","c","r","e","a","s","e"," ","T","r","e","a","s","u","r","y"," ","A","l","l","o","c","a","t","i","o","n"," ","f","o","r"," ","D","e","v","e","l","o","p","e","r"," ","G","r","a","n","t","s">>
CreateANewProposalTitled == <<"C","r","e","a","t","e"," ","a"," ","n","e","w"," ","p","r","o","p","o","s","a","l"," ","t","i","t","l","e","d"," ">>
DriverTail == <<" ","t","o"," ","a","l","l","o","c","a","t","e"," ","1","0","0","0"," ","U","S","D","C"," ","f","o","r"," ","d","e","v","e","l","o","p","e","r"," ","g","r","a","n","t","s">>
TxtCreateProposalTitled == <<"C","r","e","a","t","e"," ","p","r","o","p","o","s","a","l"," ","t","i","t","l","e","d"," ">>
TxtShowTreasury == <<"S","h","o","w"," ","t","h","e"," ","t","r","e","a","s","u","r","y"," ","b","a","l","a","n","c","e"," ","a","n","d"," ","t","o","k","e","n","s">>
TxtVoteAgainst == <<"V","o","t","e"," ","a","g","a","i","n","s","t"," ","p","r","o","p","o","s","a","l"," ","7">>
TxtVoteFor == <<"V","o","t","e"," ","f","o","r"," ","p","r","o","p","o","s","a","l"," ","7">>
TxtVote == <<"v","o","t","e">>
TxtVoteTreasury == <<"V","o","t","e"," ","o","n"," ","t","h","e"," ","t","r","e","a","s","u","r","y"," ","b","u","d","g","e","t">>
TxtAllRules == <<"C","r","e","a","t","e"," ","p","r","o","p","o","s","a","l"," ","t","o"," ","v","o","t","e"," ","o","n"," ","t","h","e"," ","t","r","e","a","s","u","r","y">>
TxtCreateFundGrants == <<"C","r","e","a","t","e"," ","p","r","o","p","o","s","a","l"," ","t","i","t","l","e","d"," ","\"","F","u","n","d"," ","G","r","a","n","t","s","\"">>
TxtListMembers == <<"L","i","s","t"," ","a","l","l"," ","m","e","m","b","e","r","s">>

Titles == {TitleFundGrants, TitleDriver}

CreateNewProposalTitled(title) == CreateANewProposalTitled \o Quote \o title \o Quote

DriverInstruction == CreateNewProposalTitled(TitleDriver) \o DriverTail

Scenarios ==
    {CreateNewProposalTitled(T) : T \in Titles}
        \cup {TxtCreateProposalTitled \o Quote \o T \o Quote : T \in Titles}
        \cup {DriverInstruction, TxtShowTreasury, TxtVoteAgainst, TxtVoteFor, TxtVote,
              TxtVoteTreasury, TxtAllRules, TxtListMembers}

Instructions == Phrases \cup Scenarios

\* what parallel callers send
ParallelInstructions ==
    {TxtCreateFundGrants, TxtShowTreasury, TxtVoteAgainst, TxtListMembers}

(* ---------------------------- the behaviour ---------------------------- *)

NoEnvelope == [pending |-> TRUE]

Init ==
    /\ config = DriverContext
    /\ now = 0
    /\ pc = [c \in Calls |-> "Idle"]
    /\ instruction = [c \in Calls |-> <<>>]
    /\ handler = [c \in Calls |-> "none"]
    /\ envelope = [c \in Calls |-> NoEnvelope]
    /\ path = [c \in Calls |-> <<>>]
    /\ signed = [c \in Calls |-> <<>>]

\* the clock new Date() and Date.now() read
Tick ==
    /\ now < MaxClock
    /\ now' = now + 1
    /\ UNCHANGED <<config, pc, instruction, handler, envelope, path, signed>>

\* the caller calls processInstruction(text)
Receive(c, text) ==
    /\ pc[c] = "Idle"
    /\ pc' = [pc EXCEPT ![c] = "Received"]
    /\ instruction' = [instruction EXCEPT ![c] = text]
    /\ path' = [path EXCEPT ![c] = <<"Received">>]
    /\ UNCHANGED <<config, now, handler, envelope, signed>>

\* the conditions of the if / else-if chain are evaluated
Classified(c) ==
    /\ pc[c] = "Received"
    /\ handler' = [handler EXCEPT ![c] = Classify(instruction[c])]
    /\ pc' = [pc EXCEPT ![c] = "Classified"]
    /\ path' = [path EXCEPT ![c] = Append(@, "Classified")]
    /\ UNCHANGED <<config, now, instruction, envelope, signed>>

\* variant: the final branch is not an else, so a handled call falls into it
Unsupported_fallthrough(c) ==
    /\ \/ pc[c] = "Classified" /\ handler[c] = "unsupported"
       \/ pc[c] = "Handled"
    /\ envelope' = [envelope EXCEPT ![c] = UnsupportedEnvelope]
    /\ pc' = [pc EXCEPT ![c] = "Unsupported"]
    /\ path' = [path EXCEPT ![c] = Append(@, "Unsupported")]
    /\ UNCHANGED <<config, now, instruction, handler, signed>>

\* the final else branch builds the failed envelope
Unsupported(c) ==
    /\ pc[c] = "Classified"
    /\ handler[c] = "unsupported"
    /\ envelope' = [envelope EXCEPT ![c] = UnsupportedEnvelope]
    /\ pc' = [pc EXCEPT ![c] = "Unsupported"]
    /\ path' = [path EXCEPT ![c] = Append(@, "Unsupported")]
    /\ UNCHANGED <<config, now, instruction, handler, signed>>

\* a branch of the chain calls its handler with the instruction
Dispatch(c) ==
    /\ pc[c] = "Classified"
    /\ handler[c] # "unsupported"
    /\ pc' = [pc EXCEPT ![c] = "Dispatched"]
    /\ path' = [path EXCEPT ![c] = Append(@, "Dispatched")]
    /\ UNCHANGED <<config, now, instruction, handler, envelope, signed>>

\* variant: the handler reads the instruction from a field every call in
\* flight writes
Handle_sharedInstruction(c) ==
    /\ pc[c] = "Dispatched"
    /\ \E other \in {d \in Calls : pc[d] # "Idle"} :
          /\ envelope' = [envelope EXCEPT ![c] =
                            RunHandler(handler[c], instruction[other], now).envelope]
          /\ signed' = [signed EXCEPT ![c] =
                            RunHandler(handler[c], instruction[other], now).signed]
    /\ pc' = [pc EXCEPT ![c] = "Handled"]
    /\ path' = [path EXCEPT ![c] = Append(@, "Handled")]
    /\ UNCHANGED <<config, now, instruction, handler>>

\* the handler runs and returns its envelope
Handle(c) ==
    /\ pc[c] = "Dispatched"
    /\ envelope' = [envelope EXCEPT ![c] = RunHandler(handler[c], instruction[c], now).envelope]
    /\ signed' = [signed EXCEPT ![c] = RunHandler(handler[c], instruction[c], now).signed]
    /\ pc' = [pc EXCEPT ![c] = "Handled"]
    /\ path' = [path EXCEPT ![c] = Append(@, "Handled")]
    /\ UNCHANGED <<config, now, instruction, handler>>

\* the promise of processInstruction resolves with the envelope
Respond(c) ==
    /\ pc[c] \in {"Unsupported", "Handled"}
    /\ pc' = [pc EXCEPT ![c] = "Responded"]
    /\ path' = [path EXCEPT ![c] = Append(@, "Responded")]
    /\ UNCHANGED <<config, now, instruction, handler, envelope, signed>>

\* the caller has read the envelope and drops it with the instruction
Return(c) ==
    /\ pc[c] = "Responded"
    /\ pc' = [pc EXCEPT ![c] = "Idle"]
    /\ instruction' = [instruction EXCEPT ![c] = <<>>]
    /\ handler' = [handler EXCEPT ![c] = "none"]
    /\ envelope' = [envelope EXCEPT ![c] = NoEnvelope]
    /\ path' = [path EXCEPT ![c] = <<>>]
    /\ signed' = [signed EXCEPT ![c] = <<>>]
    /\ UNCHANGED <<config, now>>

\* main(): one call at a time, each awaited before the next
Next ==
    \/ Tick
    \/ \E text \in Instructions : Receive(1, text)
    \/ Classified(1)
    \/ Unsupported(1)
    \/ Dispatch(1)
    \/ Handle(1)
    \/ Respond(1)
    \/ Return(1)

Spec == Init /\ [][Next]_vars

\* the steps of a call once it is issued
Step(c) ==
    Classified(c) \/ Unsupported(c) \/ Dispatch(c) \/ Handle(c) \/ Respond(c) \/ Return(c)

\* main() under an event loop that runs every step that is ready
FairSpec == Spec /\ WF_vars(Step(1))

\* a caller that issues calls in parallel.  The runtime runs the synchronous
\* part of a call in one go; the steps here are finer, so every interleaving
\* the runtime can produce is among these.
ParallelNext ==
    \/ Tick
    \/ \E c \in Calls :
        \/ \E text \in ParallelInstructions : Receive(c, text)
        \/ Classified(c)
        \/ Unsupported(c)
        \/ Dispatch(c)
        \/ Handle(c)
        \/ Respond(c)
        \/ Return(c)

ParallelSpec == Init /\ [][ParallelNext]_vars

(* ------------------------------ the claims ----------------------------- *)

RoutingKeywords == {KwCreateProposal, KwVote, KwCast, KwTreasury}

HasRoutingKeyword(text) == \E kw \in RoutingKeywords : includes(toLowerCase(text), kw)

Present(env, field) == field \in DOMAIN env

InFlight(c) == pc[c] \in {"Classified", "Unsupported", "Dispatched", "Handled", "Responded"}

\* C1: an instruction containing none of 'create proposal', 'vote', 'cast',
\* 'treasury' (compared case-insensitively) is answered, not raised, with
\* success = false and error.code = 400.
C1_NoKeywordIs400 ==
    \A c \in Calls :
        (pc[c] = "Responded" /\ ~HasRoutingKeyword(instruction[c]))
            => /\ envelope[c].success = FALSE
               /\ Present(envelope[c], "error")
               /\ envelope[c].error.code = 400

C1_Witness ==
    \E c \in Calls :
        /\ pc[c] = "Responded"
        /\ instruction[c] = WCreate \o <<" ">> \o WBalance
        /\ ~HasRoutingKeyword(instruction[c])
        /\ envelope[c].success = FALSE
        /\ envelope[c].error.code = 400

MutatingHandlers == {"createProposal", "castVote"}

\* C2: an envelope returned by a ledger-mutating handler (createProposal,
\* castVote) has a non-empty transactionId; an envelope returned by the
\* query-only handler (treasuryAction) has none.
C2_TransactionIdByHandlerKind ==
    \A c \in Calls :
        pc[c] = "Responded" =>
            /\ handler[c] \in MutatingHandlers
                 => Present(envelope[c], "transactionId") /\ envelope[c].transactionId # ""
            /\ handler[c] = "treasuryAction" => ~Present(envelope[c], "transactionId")

HasTitle(env, title) ==
    /\ env.success = TRUE
    /\ Present(env, "data")
    /\ Present(env.data, "title")
    /\ env.data.title = title

\* C3: `Create a new proposal titled "T"` is answered with a successful
\* envelope whose payload title is exactly T, and a proposal-creation
\* instruction without the `titled` marker with the title Untitled Proposal.
C3_TitleRoundTrip ==
    \A c \in Calls :
        pc[c] = "Responded" =>
            /\ \A T \in Titles :
                 instruction[c] = CreateNewProposalTitled(T) => HasTitle(envelope[c], T)
            /\ (handler[c] = "createProposal" /\ ~includes(instruction[c], KwTitled))
                 => HasTitle(envelope[c], UntitledProposal)

\* C4: every envelope produced has success = true exactly when error is
\* absent, and success = false exactly when data is absent.
C4_MutualExclusion ==
    \A c \in Calls :
        envelope[c] # NoEnvelope =>
            /\ envelope[c].success = TRUE <=> ~Present(envelope[c], "error")
            /\ envelope[c].success = FALSE <=> ~Present(envelope[c], "data")

C4_Witness ==
    \E c \in Calls :
        /\ pc[c] = "Responded"
        /\ now = MaxClock
        /\ envelope[c].success = FALSE
        /\ Present(envelope[c], "error")
        /\ ~Present(envelope[c], "data")

\* the ordered rule table the classifier is claimed to implement
Rules ==
    << [keywords |-> {KwCreateProposal}, handler |-> "createProposal", payload |-> "proposal"],
       [keywords |-> {KwVote, KwCast},   handler |-> "castVote",       payload |-> "vote"],
       [keywords |-> {KwTreasury},       handler |-> "treasuryAction", payload |-> "treasury"] >>

Matches(text, r) == \E kw \in Rules[r].keywords : includes(toLowerCase(text), kw)

Count(seq, x) == Cardinality({i \in 1..Len(seq) : seq[i] = x})

\* C5: an instruction that matches several of the rules 'create proposal',
\* ('vote' or 'cast'), 'treasury' is dispatched to the handler of the
\* earliest matching rule and to no other.
C5_FirstMatchWins ==
    \A c \in Calls :
        pc[c] = "Responded" =>
            \A r \in 1..Len(Rules) :
                (Matches(instruction[c], r) /\ \A q \in 1..(r - 1) : ~Matches(instruction[c], q))
                    => /\ handler[c] = Rules[r].handler
                       /\ Count(path[c], "Handled") = 1
                       /\ envelope[c].data.type = Rules[r].payload

C5_Witness ==
    \E c \in Calls :
        /\ pc[c] = "Responded"
        /\ ~Matches(instruction[c], 1)
        /\ Matches(instruction[c], 2)
        /\ Matches(instruction[c], 3)
        /\ handler[c] = "castVote"
        /\ envelope[c].data.type = "vote"

\* the instruction names the direction against, in any letter case
AsksAgainst(text) == includes(toLowerCase(text), KwAgainst)

Implements(h) ==
    CASE h = "createProposal" -> "Proposal Creation"
      [] h = "castVote"       -> "Vote Casting"
      [] h = "treasuryAction" -> "DAO Treasury Management"

RoutableHandlers == {Classify(text) : text \in Instructions} \ {"unsupported"}

Advertised == {getCapabilities[i] : i \in 1..Len(getCapabilities)}

\* C7: every capability getCapabilities advertises is carried out by a
\* handler some instruction is routed to, and every handler the classifier
\* reaches carries out an advertised capability.
C7_CapabilitiesConsistent ==
    /\ \A cap \in Advertised : \E h \in RoutableHandlers : Implements(h) = cap
    /\ \A c \in Calls :
          (InFlight(c) /\ handler[c] # "unsupported") => Implements(handler[c]) \in Advertised

\* C8: within one call a ledger-mutating handler invokes executeTransaction
\* exactly once and the envelope's transactionId is the signature it got;
\* the query-only handler and the unsupported path never invoke it.
C8_SignerOncePerMutation ==
    \A c \in Calls :
        pc[c] = "Responded" =>
            /\ handler[c] \in MutatingHandlers
                 => /\ Len(signed[c]) = 1
                    /\ Present(envelope[c], "transactionId")
                    /\ envelope[c].transactionId = signed[c][1]
            /\ handler[c] \in {"treasuryAction", "unsupported"} => Len(signed[c]) = 0

UnsupportedPath == <<"Received", "Classified", "Unsupported", "Responded">>
HandledPath == <<"Received", "Classified", "Dispatched", "Handled", "Responded">>
SignedPath == <<"Received", "Classified", "Dispatched", "Handled", "Signed", "Responded">>

IsPrefix(p, q) == Len(p) <= Len(q) /\ SubSeq(q, 1, Len(p)) = p

OnPath(c) ==
    /\ \E q \in {UnsupportedPath, HandledPath, SignedPath} : IsPrefix(path[c], q)
    /\ pc[c] # "Idle" => path[c] # <<>> /\ path[c][Len(path[c])] = pc[c]
    /\ pc[c] = "Responded" =>
          /\ envelope[c] # NoEnvelope
          /\ Count(path[c], "Unsupported") + Count(path[c], "Handled") = 1

\* C9: a call runs Received, Classified, then Unsupported or Dispatched and
\* Handled (and possibly Signed), then Responded: it always responds, with
\* one envelope that is not replaced, having passed exactly one of
\* Unsupported and Handled.
C9_CallStateMachine ==
    /\ [](\A c \in Calls : OnPath(c))
    /\ [][\A c \in Calls :
            envelope[c] # NoEnvelope => (envelope'[c] = envelope[c] \/ pc'[c] = "Idle")]_vars
    /\ \A c \in Calls : (pc[c] = "Received") ~> (pc[c] = "Responded")

C9_Witness ==
    \E c \in Calls :
        /\ pc[c] = "Responded"
        /\ path[c] = HandledPath
        /\ handler[c] = "createProposal"
        /\ envelope[c].data.title = TitleFundGrants

TimestampFields == {"createdAt", "votingEndsAt", "timestamp", "lastActivity"}

StripTimestamps(env) ==
    IF Present(env, "data")
    THEN [env EXCEPT !.data = [k \in (DOMAIN env.data) \ TimestampFields |-> env.data[k]]]
    ELSE env

\* C10: under every interleaving of parallel calls each call selects the
\* handler and returns the envelope (timestamps aside) it returns when run
\* alone, and the agent's configuration, hence getName, getCapabilities and
\* getState, stays what it was.
C10_CallsIndependent ==
    /\ [](\A c \in Calls :
            /\ InFlight(c) => handler[c] = Classify(instruction[c])
            /\ pc[c] = "Responded" =>
                 StripTimestamps(envelope[c])
                     = StripTimestamps(processInstruction(instruction[c], 0)))
    /\ [][/\ config' = config
          /\ getName' = getName
          /\ getCapabilities' = getCapabilities
          /\ getState' = getState]_vars

C10_Witness ==
    /\ pc[1] = "Responded" /\ handler[1] = "treasuryAction"
    /\ pc[2] = "Handled" /\ handler[2] = "castVote"
    /\ envelope[1].data.lastActivity > envelope[2].data.timestamp

====
